---- MODULE Spec2Model ----
(***************************************************************************)
(* A model of scraper.crawler.AsyncCrawler: the frontier, the visited and  *)
(* enqueued sets, the robots cache, the two permit pools, the fetch and    *)
(* render pipeline, the worker pool and run()'s shutdown, together with    *)
(* the pure helpers of scraper.utils that the crawler calls.               *)
(*                                                                         *)
(* One action is one run of a coroutine between two points where it        *)
(* really suspends (an HTTP retrieval, a render, storage I/O, a wait for   *)
(* a permit, a wait on the frontier): asyncio runs such a stretch without  *)
(* interleaving.  A put on the unbounded frontier and an acquire of a free *)
(* permit do not suspend.                                                  *)
(***************************************************************************)
EXTENDS Integers, Sequences, FiniteSets, TLC

(***************************************************************************)
(* Addresses.  An address is what urlparse makes of the string: a scheme,  *)
(* a network location (a sequence of characters), a path (the segments     *)
(* after each "/": <<>> is the empty path, <<"">> is "/", <<"p">> is "/p", *)
(* <<"private","z">> is "/private/z"), the keys of the query pairs in      *)
(* order, and a fragment.  The empty string is the address with every part *)
(* empty.                                                                  *)
(***************************************************************************)
Url(s, h, p, q, f) == [scheme |-> s, host |-> h, path |-> p, query |-> q, frag |-> f]

None == [none |-> TRUE]

EmptyHref == Url("", <<>>, <<>>, <<>>, "")

\* str.lower() on the characters and tokens the model uses.
LowerChar(c) ==
    CASE c = "X" -> "x"
      [] c = "C" -> "c"
      [] c = "S" -> "s"
      [] c = "Y" -> "y"
      [] OTHER -> c

Lower(s) == [i \in 1..Len(s) |-> LowerChar(s[i])]

LowerToken(t) ==
    CASE t = "HTTP" -> "http"
      [] t = "JavaScript" -> "javascript"
      [] t = "UTM_Source" -> "utm_source"
      [] OTHER -> t

EndsWith(s, suffix) ==
    /\ Len(suffix) <= Len(s)
    /\ SubSeq(s, Len(s) - Len(suffix) + 1, Len(s)) = suffix

RECURSIVE LStripDot(_)
LStripDot(d) == IF d # <<>> /\ Head(d) = "." THEN LStripDot(Tail(d)) ELSE d

RECURSIVE SelectKeys(_, _)
SelectKeys(q, drop) ==
    IF q = <<>> THEN <<>>
    ELSE IF LowerToken(Head(q)) \in drop THEN SelectKeys(Tail(q), drop)
    ELSE <<Head(q)>> \o SelectKeys(Tail(q), drop)

TRACKING_PARAMS ==
    {"utm_source", "utm_medium", "utm_campaign", "utm_term", "utm_content",
     "gclid", "fbclid", "mc_eid"}

\* The scheme urlparse reads: leading blanks and control characters are
\* stripped from the string, tabs and line ends removed, and the scheme is
\* lower-cased.
UrlparseScheme(t) ==
    CASE t = " javascript" -> "javascript"
      [] OTHER -> LowerToken(t)

\* urlparse lower-cases the scheme; the fragment is dropped; the pairs whose
\* lower-cased key is a tracking parameter are dropped, the others kept in order.
strip_fragment_and_tracking(url) ==
    Url(UrlparseScheme(url.scheme), url.host, url.path,
        SelectKeys(url.query, TRACKING_PARAMS), "")

\* urllib.parse.urljoin for references with an absolute or an empty path.
urljoin(base, href) ==
    IF href = EmptyHref THEN base
    ELSE IF href.scheme # "" /\ UrlparseScheme(href.scheme) # UrlparseScheme(base.scheme)
        THEN href
    ELSE IF href.host # <<>>
        THEN Url(UrlparseScheme(base.scheme), href.host, href.path, href.query, href.frag)
    ELSE IF href.path = <<>>
        THEN Url(UrlparseScheme(base.scheme), base.host, base.path,
                 IF href.query # <<>> THEN href.query ELSE base.query, href.frag)
    ELSE Url(UrlparseScheme(base.scheme), base.host, href.path, href.query, href.frag)

NonFetchableSchemes == {"javascript", "mailto", "tel"}

\* The regular expression is matched at the very start of the reference as
\* written, without regard to case.
normalize_url(base_url, href) ==
    IF href = EmptyHref THEN None
    ELSE IF LowerToken(href.scheme) \in NonFetchableSchemes THEN None
    ELSE strip_fragment_and_tracking(urljoin(base_url, href))

\* Mutant of is_allowed_domain: the suffix test has no dot boundary.
is_allowed_domain_NoBoundary(url, domains) ==
    IF domains = <<>> THEN TRUE
    ELSE \E i \in 1..Len(domains) :
            LET d == LStripDot(Lower(domains[i]))
                netloc == Lower(url.host)
            IN  netloc = d \/ EndsWith(netloc, d)

is_allowed_domain(url, domains) ==
    IF domains = <<>> THEN TRUE
    ELSE \E i \in 1..Len(domains) :
            LET d == LStripDot(Lower(domains[i]))
                netloc == Lower(url.host)
            IN  netloc = d \/ EndsWith(netloc, <<".">> \o d)


(***************************************************************************)
(* scraper.utils.should_render_heuristic, on the three measures it takes   *)
(* of a document.                                                          *)
(***************************************************************************)
TextLenThreshold == 400

ScriptCountThreshold == 5

\* What the heuristic's regular expressions measure on each document of the
\* modelled web: the length of the text outside tags, the number of script
\* tags, and whether a single-page-application marker occurs.
DocMeasures(html) ==
    CASE html = "home_raw" -> [text_len |-> 1000, script_count |-> 0, has_spa_marker |-> FALSE]
      [] html = "p_raw"    -> [text_len |-> 399,  script_count |-> 5, has_spa_marker |-> FALSE]
      [] html = "q_raw"    -> [text_len |-> 400,  script_count |-> 5, has_spa_marker |-> FALSE]
      [] html = "z_raw"    -> [text_len |-> 1000, script_count |-> 0, has_spa_marker |-> TRUE]
      [] html = "home_dom" -> [text_len |-> 1000, script_count |-> 2, has_spa_marker |-> FALSE]
      [] html = "p_dom"    -> [text_len |-> 900,  script_count |-> 5, has_spa_marker |-> FALSE]
      [] html = "q_dom"    -> [text_len |-> 400,  script_count |-> 5, has_spa_marker |-> FALSE]
      [] html = "z_dom"    -> [text_len |-> 1000, script_count |-> 1, has_spa_marker |-> TRUE]
      [] html = "out_dom"  -> [text_len |-> 399,  script_count |-> 4, has_spa_marker |-> FALSE]
      [] OTHER             -> [text_len |-> 0,    script_count |-> 0, has_spa_marker |-> FALSE]

should_render_heuristic(html) ==
    LET m == DocMeasures(html)
    IN  \/ (m.text_len < TextLenThreshold /\ m.script_count >= ScriptCountThreshold)
        \/ m.has_spa_marker

\* Python's truth value of Optional[str]: None and "" are false.
Truthy(html) == html # "None" /\ html # ""

(***************************************************************************)
(* The modelled web: five pages and one image on three hosts.              *)
(***************************************************************************)
HostX == <<"x", ".", "c">>

HostSub == <<"s", ".", "x", ".", "c">>

HostYx == <<"y", "x", ".", "c">>

U_home == Url("http", HostX, <<"">>, <<>>, "")

U_p == Url("http", HostX, <<"p">>, <<>>, "")

U_q == Url("http", HostSub, <<"q">>, <<>>, "")

U_priv == Url("http", HostX, <<"private", "z">>, <<>>, "")

U_out == Url("http", HostYx, <<"">>, <<>>, "")

AllUrls == {U_home, U_p, U_q, U_priv, U_out}

\* An image, on the host of U_out.
U_img == Url("http", HostYx, <<"i">>, <<>>, "")

\* References as the extraction collaborator hands them over.
H_p_tracked == Url("http", HostX, <<"p">>, <<"utm_source">>, "top")

H_p_upper == Url("HTTP", HostX, <<"p">>, <<"UTM_Source">>, "")

H_script == Url("JavaScript", <<>>, <<"void(0)">>, <<>>, "")

\* extract_links(html, url)
extract_links(html) ==
    CASE html \in {"home_raw", "home_dom"} -> <<H_p_tracked, U_q, U_out, H_script, U_p>>
      [] html = "p_raw" -> <<U_home>>
      [] html = "p_dom" -> <<U_home, U_priv>>
      [] html \in {"q_raw", "q_dom"} -> <<U_priv>>
      [] html = "out_dom" -> <<U_home>>
      [] OTHER -> <<>>

\* extract_pagination_next_links(html, url)
extract_pagination_next_links(html) ==
    CASE html \in {"home_raw", "home_dom"} -> <<H_p_upper>>
      [] html = "p_dom" -> <<U_q>>
      [] OTHER -> <<>>

\* extract_image_sources(html, url)
extract_image_sources(html) ==
    CASE html \in {"home_raw", "home_dom"} -> <<U_img>>
      [] OTHER -> <<>>

\* The Location of the 3xx response a server may give for the address, None
\* when it redirects nowhere: s.x.c/q may send the client to yx.c.
Location(url) == IF url = U_q THEN U_out ELSE None

\* The body a 200 text/html response carries for each address.
RawDoc(url) ==
    CASE url = U_home -> "home_raw"
      [] url = U_p -> "p_raw"
      [] url = U_q -> "q_raw"
      [] url = U_priv -> "z_raw"
      [] OTHER -> ""

\* The document the rendering engine produces for each address.
RenderedDoc(url) ==
    CASE url = U_home -> "home_dom"
      [] url = U_p -> "p_dom"
      [] url = U_q -> "q_dom"
      [] url = U_priv -> "z_dom"
      [] OTHER -> "out_dom"

\* _fetch_http: the text of a 200 HTML response, or None for any other
\* status, any other content type and any transport error.
FetchOutcomes(url) == {"None", RawDoc(url)}

\* render_content: the rendered document, an empty document, or an exception.
RenderOutcomes(url) == {"raise", "", RenderedDoc(url)}

(***************************************************************************)
(* urllib.robotparser.RobotFileParser as _robots_allows uses it.           *)
(***************************************************************************)
\* RobotFileParser(): nothing read yet.
NewRobotFileParser ==
    [disallow_all |-> FALSE, allow_all |-> FALSE, last_checked |-> 0, disallow |-> {}]

\* rp.parse(lines) of the robots document every origin of the modelled web
\* serves with status 200: "User-agent: *" / "Disallow: /private/".
ParsedRobots ==
    [disallow_all |-> FALSE, allow_all |-> FALSE, last_checked |-> 1,
     disallow |-> {<<"private", "">>}]

\* The except and the non-200 branch: rp.disallow_all = False on a new parser.
UnreadRobots == [NewRobotFileParser EXCEPT !.disallow_all = FALSE]

\* path.startswith(prefix) for a prefix that ends with "/".
PathStartsWith(path, prefix) ==
    /\ Len(path) >= Len(prefix)
    /\ \A i \in 1..(Len(prefix) - 1) : path[i] = prefix[i]

\* RobotFileParser.can_fetch(useragent, url)
can_fetch(rp, url) ==
    IF rp.disallow_all THEN FALSE
    ELSE IF rp.allow_all THEN TRUE
    ELSE IF rp.last_checked = 0 THEN FALSE
    ELSE ~ \E prefix \in rp.disallow : PathStartsWith(url.path, prefix)

RobotsOutcomes == {"200", "non200", "raise"}

\* The parser _robots_allows builds from the retrieval's outcome.
RobotsParserFor(outcome) == IF outcome = "200" THEN ParsedRobots ELSE UnreadRobots

\* base = f"{parsed.scheme}://{parsed.netloc}"
RobotsBase(url) == <<UrlparseScheme(url.scheme), url.host>>


(***************************************************************************)
(* State.                                                                  *)
(***************************************************************************)
VARIABLES
    \* AsyncCrawler.__init__'s arguments, fixed for the run
    start_urls, allowed_domains, max_pages, max_depth, max_concurrency,
    per_host_limit, robots_enabled, render_mode, download_images, delay_ms,
    \* whether "from playwright.async_api import async_playwright" succeeds
    playwright_installed,
    \* the call of a scraper.utils function made outside a crawl
    call,
    \* AsyncCrawler's fields
    visited, enqueued, queue, unfinished_tasks, pages_processed,
    global_semaphore, per_host_semaphores, robots_parsers,
    client_closed, playwright_closed,
    \* PlaywrightManager._playwright is set: ensure_browser started the engine
    playwright_started,
    \* data.jsonl: the address of each record appended, in order
    records,
    \* run()'s position and each worker's position, task and locals
    run_pc, wpc, wtask, wperm, whttp, wrender, whtml,
    \* the address a redirect has taken the worker's page request to, if any
    wlocation,
    \* the run's history: puts on the frontier and visited.add per address,
    \* robots retrievals issued and cache writes per origin, and the page and
    \* image addresses the HTTP client has sent a GET to
    put_count, visit_count, robots_gets, robots_writes, client_gets

\* What no step of a crawl changes.
config == <<start_urls, allowed_domains, max_pages, max_depth, max_concurrency,
            per_host_limit, robots_enabled, render_mode, download_images,
            delay_ms, playwright_installed, call>>

shared == <<visited, enqueued, queue, unfinished_tasks, pages_processed,
            global_semaphore, per_host_semaphores, robots_parsers,
            client_closed, playwright_closed, playwright_started, records>>

locals == <<run_pc, wpc, wtask, wperm, whttp, wrender, whtml, wlocation>>

history == <<put_count, visit_count, robots_gets, robots_writes, client_gets>>

vars == <<config, shared, locals, history>>

(***************************************************************************)
(* Bounds of the configurations explored.                                  *)
(***************************************************************************)
MaxPagesBound == 2

MaxDepthBound == 1

\* (max_concurrency, per_host_limit): one global permit for the two workers,
\* one permit per origin, and no contention.
PermitLimits == {<<1, 1>>, <<2, 1>>, <<2, 2>>}

SeedLists == {<<>>, <<U_home>>, <<U_p, U_p>>, <<U_home, U_p>>, <<U_out>>,
              <<U_priv>>}

DomainLists == {<<>>, << <<".", "X", ".", "c">> >>}

RenderModes == {"auto", "always", "never"}

\* download_images: on, as by default, and also off (--no-images) for the
\* crawl from the one seed whose document names an image.
ImageSettings(seeds) == IF seeds = <<U_home>> THEN BOOLEAN ELSE {TRUE}

\* delay_ms: none, as by default, and also 5 ms (--delay-ms 5) for the crawl
\* whose two tasks contend for the permits of one origin.
DelaySettings(seeds) == IF seeds = <<U_p, U_p>> THEN {0, 5} ELSE {0}

\* num_workers = max(2, min(32, self._global_semaphore._value))
WorkerFloor == 2

WorkerCeiling == 32

Min(a, b) == IF a < b THEN a ELSE b

Max(a, b) == IF a > b THEN a ELSE b

num_workers == Max(WorkerFloor, Min(WorkerCeiling, max_concurrency))

Workers == 1..num_workers

CrawlTask(url, depth) == [url |-> url, depth |-> depth]

NoTask == [url |-> None, depth |-> 0]

\* self.playwright = PlaywrightManager() if render != "never" else None
playwright == IF render_mode # "never" THEN "PlaywrightManager" ELSE "None"

Origins == {RobotsBase(u) : u \in AllUrls}

NoCall == [fn |-> "none"]

Init ==
    /\ start_urls \in SeedLists
    /\ allowed_domains \in DomainLists
    /\ max_pages \in 0..MaxPagesBound
    /\ max_depth \in 0..MaxDepthBound
    /\ \E limits \in PermitLimits :
         /\ max_concurrency = limits[1]
         /\ per_host_limit = limits[2]
    /\ robots_enabled \in BOOLEAN
    /\ render_mode \in RenderModes
    /\ download_images \in ImageSettings(start_urls)
    /\ delay_ms \in DelaySettings(start_urls)
    \* with 'never' no PlaywrightManager exists and nothing imports the engine
    /\ playwright_installed \in (IF render_mode = "never" THEN {TRUE} ELSE BOOLEAN)
    /\ call = NoCall
    /\ visited = {}
    /\ enqueued = {}
    /\ queue = <<>>
    /\ unfinished_tasks = 0
    /\ pages_processed = 0
    /\ global_semaphore = max_concurrency
    /\ per_host_semaphores = <<>>
    /\ robots_parsers = <<>>
    /\ client_closed = FALSE
    /\ playwright_closed = FALSE
    /\ playwright_started = FALSE
    /\ records = <<>>
    /\ run_pc = "init"
    /\ wpc = [w \in Workers |-> "none"]
    /\ wtask = [w \in Workers |-> NoTask]
    /\ wperm = [w \in Workers |-> {}]
    /\ whttp = [w \in Workers |-> "None"]
    /\ wrender = [w \in Workers |-> "pending"]
    /\ whtml = [w \in Workers |-> "None"]
    /\ wlocation = [w \in Workers |-> None]
    /\ put_count = [u \in AllUrls |-> 0]
    /\ visit_count = [u \in AllUrls |-> 0]
    /\ robots_gets = [o \in Origins |-> 0]
    /\ robots_writes = [o \in Origins |-> 0]
    /\ client_gets = {}

(***************************************************************************)
(* Helpers of the actions.                                                 *)
(***************************************************************************)
\* A dict with key k set to v.
DictSet(d, k, v) == [x \in (DOMAIN d) \cup {k} |-> IF x = k THEN v ELSE d[x]]

\* dict.get(k), None when absent
DictGet(d, k) == IF k \in DOMAIN d THEN d[k] ELSE None

RECURSIVE CountIn(_, _)
CountIn(seq, x) ==
    IF seq = <<>> THEN 0
    ELSE (IF Head(seq) = x THEN 1 ELSE 0) + CountIn(Tail(seq), x)

\* worker(): the loop condition, evaluated on the way back to queue.get().
LoopHead(processed) == IF processed < max_pages THEN "waiting" ELSE "exited"

\* Mutant of GlobalFree: the acquire never waits.
GlobalFree_NoWait == TRUE

\* Semaphore.acquire() returns at once when a permit is free.
GlobalFree == global_semaphore > 0

\* _host_semaphore(url): the pool of the address's network location, created
\* with per_host_limit permits on first use.
HostSemValue(host) ==
    IF host \in DOMAIN per_host_semaphores THEN per_host_semaphores[host]
    ELSE per_host_limit

HostFree(host) == HostSemValue(host) > 0

\* With both permits held: the sleep of delay_ms when one is set, and
\* otherwise _fetch_http, which calls self.client.get at once.
AfterPermits == IF delay_ms # 0 THEN "delay" ELSE "fetch"

\* Mutant of AcquirePermits: the origin's permit is taken before the global one.
AcquirePermits_HostFirst(url) ==
    IF ~HostFree(url.host)
    THEN [pc |-> "hsem", g |-> global_semaphore, hs |-> per_host_semaphores,
          perm |-> {}]
    ELSE IF ~GlobalFree
    THEN [pc |-> "gsem", g |-> global_semaphore,
          hs |-> DictSet(per_host_semaphores, url.host, HostSemValue(url.host) - 1),
          perm |-> {"host"}]
    ELSE [pc |-> AfterPermits, g |-> global_semaphore - 1,
          hs |-> DictSet(per_host_semaphores, url.host, HostSemValue(url.host) - 1),
          perm |-> {"global", "host"}]

\* _handle_task from the global acquire to the first point where it suspends:
\* the wait for a global permit, the wait for the origin's permit, the sleep
\* of delay_ms, or the retrieval of the page.
AcquirePermits(url) ==
    IF ~GlobalFree
    THEN [pc |-> "gsem", g |-> global_semaphore, hs |-> per_host_semaphores,
          perm |-> {}]
    ELSE IF ~HostFree(url.host)
    THEN [pc |-> "hsem", g |-> global_semaphore - 1,
          hs |-> DictSet(per_host_semaphores, url.host, HostSemValue(url.host)),
          perm |-> {"global"}]
    ELSE [pc |-> AfterPermits, g |-> global_semaphore - 1,
          hs |-> DictSet(per_host_semaphores, url.host, HostSemValue(url.host) - 1),
          perm |-> {"global", "host"}]

\* The checks _handle_task makes before the politeness check.
BudgetReached == pages_processed >= max_pages

\* Mutant of DepthExceeded: the limit is off by one.
DepthExceeded_OffByOne(task) == task.depth > max_depth + 1

DepthExceeded(task) == task.depth > max_depth

\* Mutant of PreCheck: the allowlist is not consulted before the robots check.
PreCheck_NoDomainCheck(task) ==
    IF BudgetReached THEN "budget"
    ELSE IF task.url \in visited THEN "visited"
    ELSE IF DepthExceeded(task) THEN "depth"
    ELSE "pass"

\* "budget", "visited", "depth", "domain" or "pass"
PreCheck(task) ==
    IF BudgetReached THEN "budget"
    ELSE IF task.url \in visited THEN "visited"
    ELSE IF DepthExceeded(task) THEN "depth"
    ELSE IF ~is_allowed_domain(task.url, allowed_domains) THEN "domain"
    ELSE "pass"

\* Mutant of needs_render: 'auto' renders only when the raw fetch is empty.
needs_render_NoHeuristic(html) ==
    IF render_mode = "always" THEN TRUE
    ELSE IF render_mode = "auto" THEN ~Truthy(html)
    ELSE FALSE

\* The render decision of _handle_task.
needs_render(html) ==
    IF render_mode = "always" THEN TRUE
    ELSE IF render_mode = "auto" THEN ~Truthy(html) \/ should_render_heuristic(html)
    ELSE FALSE

\* Mutant of next_depth: the parent's depth plus one.
next_depth_Incremented(parent) == parent.depth + 1

\* _process_page's loop over links + next_links.
next_depth(parent) == 1

\* Mutant of LinkAccepted: the allowlist is not consulted for a link.
LinkAccepted_NoAllowlist(norm, enq) ==
    /\ norm # None
    /\ norm \notin enq
    /\ norm \notin visited

LinkAccepted(norm, enq) ==
    /\ norm # None
    /\ norm \notin enq
    /\ norm \notin visited
    /\ is_allowed_domain(norm, allowed_domains)

\* The addresses the loop puts on the frontier, in order, starting from the
\* enqueued set enq.
RECURSIVE EnqueueLinks(_, _, _)
EnqueueLinks(url, hrefs, enq) ==
    IF hrefs = <<>> THEN <<>>
    ELSE LET norm == normalize_url(url, Head(hrefs))
         IN  IF LinkAccepted(norm, enq)
             THEN <<norm>> \o EnqueueLinks(url, Tail(hrefs), enq \cup {norm})
             ELSE EnqueueLinks(url, Tail(hrefs), enq)

Range(seq) == {seq[i] : i \in 1..Len(seq)}

\* Mutant of EnqueuedAdd: the addresses put on the frontier are not recorded.
EnqueuedAdd_Forgets(enq, urls) == enq

\* self.enqueued.add(url) for each address put on the frontier.
EnqueuedAdd(enq, urls) == enq \cup Range(urls)


(***************************************************************************)
(* run()                                                                   *)
(***************************************************************************)
\* Workers that queue.join()'s return finds still running are cancelled.
CancelWorkers(pc) ==
    [w \in Workers |-> IF pc[w] \in {"created", "waiting"} THEN "cancelled" ELSE pc[w]]

\* run() up to its first suspension: the seeds are put on the frontier, the
\* workers are created, and queue.join() either suspends or, with nothing
\* unfinished, returns at once, in which case the workers are cancelled before
\* they have run and run() suspends in gather.
RunStart ==
    /\ run_pc = "init"
    /\ enqueued' = EnqueuedAdd(enqueued, start_urls)
    /\ queue' = [i \in 1..Len(start_urls) |-> CrawlTask(start_urls[i], 0)]
    /\ unfinished_tasks' = Len(start_urls)
    /\ put_count' = [u \in AllUrls |-> put_count[u] + CountIn(start_urls, u)]
    /\ IF Len(start_urls) = 0
       THEN /\ wpc' = [w \in Workers |-> "cancelled"]
            /\ run_pc' = "gather"
       ELSE /\ wpc' = [w \in Workers |-> "created"]
            /\ run_pc' = "join"
    /\ UNCHANGED <<config, visited, pages_processed, global_semaphore,
                   per_host_semaphores, robots_parsers, client_closed,
                   playwright_closed, playwright_started, records, wtask,
                   wperm, whttp, wrender, whtml, wlocation, visit_count,
                   robots_gets, robots_writes, client_gets>>

\* queue.join() returns once every task put has been marked done; run() then
\* cancels the workers and suspends in gather.
RunJoin ==
    /\ run_pc = "join"
    /\ unfinished_tasks = 0
    /\ wpc' = CancelWorkers(wpc)
    /\ run_pc' = "gather"
    /\ UNCHANGED <<config, shared, wtask, wperm, whttp, wrender, whtml, wlocation, history>>

\* gather(*workers) under contextlib.suppress(Exception).  A worker that
\* ended with an exception makes gather raise it, and it is suppressed: run()
\* goes on to client.aclose() and suspends there.  Otherwise a cancelled
\* worker makes gather raise CancelledError, which is no Exception and leaves
\* run().
RunFinish ==
    /\ run_pc = "gather"
    /\ run_pc' = IF /\ \A w \in Workers : wpc[w] # "crashed"
                    /\ \E w \in Workers : wpc[w] = "cancelled"
                 THEN "raised" ELSE "aclose"
    /\ UNCHANGED <<config, shared, wpc, wtask, wperm, whttp, wrender, whtml, wlocation,
                   history>>

\* client.aclose() returns or raises.  When it has returned and there is a
\* PlaywrightManager, run() awaits its close(), which suspends only when the
\* engine was started.
RunCloseClient ==
    /\ run_pc = "aclose"
    /\ \E outcome \in {"return", "raise"} :
         IF outcome = "raise"
         THEN /\ run_pc' = "raised"
              /\ UNCHANGED <<client_closed, playwright_closed>>
         ELSE /\ client_closed' = TRUE
              /\ IF playwright # "None" /\ playwright_started
                 THEN /\ run_pc' = "close"
                      /\ UNCHANGED playwright_closed
                 ELSE /\ run_pc' = "returned"
                      /\ playwright_closed' = (playwright # "None")
    /\ UNCHANGED <<config, visited, enqueued, queue, unfinished_tasks,
                   pages_processed, global_semaphore, per_host_semaphores,
                   robots_parsers, playwright_started, records, wpc, wtask,
                   wperm, whttp, wrender, whtml, wlocation, history>>

\* PlaywrightManager.close() is through with the browser and the engine, its
\* exceptions suppressed, and run() returns.
RunCloseEngine ==
    /\ run_pc = "close"
    /\ playwright_closed' = TRUE
    /\ run_pc' = "returned"
    /\ UNCHANGED <<config, visited, enqueued, queue, unfinished_tasks,
                   pages_processed, global_semaphore, per_host_semaphores,
                   robots_parsers, client_closed, playwright_started, records,
                   wpc, wtask, wperm, whttp, wrender, whtml, wlocation, history>>

(***************************************************************************)
(* worker()                                                                *)
(***************************************************************************)
\* A created worker starts: the loop condition, then queue.get().
WorkerStart(w) ==
    /\ wpc[w] = "created"
    /\ wpc' = [wpc EXCEPT ![w] = LoopHead(pages_processed)]
    /\ UNCHANGED <<config, shared, run_pc, wtask, wperm, whttp, wrender, whtml, wlocation, history>>

\* queue.get() hands the worker the oldest task.
WorkerGet(w) ==
    /\ wpc[w] = "waiting"
    /\ queue # <<>>
    /\ wtask' = [wtask EXCEPT ![w] = Head(queue)]
    /\ queue' = Tail(queue)
    /\ wpc' = [wpc EXCEPT ![w] = "handle"]
    /\ UNCHANGED <<config, visited, enqueued, unfinished_tasks, pages_processed,
                   global_semaphore, per_host_semaphores, robots_parsers,
                   client_closed, playwright_closed, playwright_started, records, run_pc, wperm,
                   whttp, wrender, whtml, wlocation, history>>

\* wait_for times out, whether the frontier is empty or its getter has not
\* run yet when the timer fires (the getter is cancelled and the task stays
\* queued); the worker leaves the loop when the budget is reached (and
\* otherwise waits again, which changes nothing).
WorkerTimeout(w) ==
    /\ wpc[w] = "waiting"
    /\ BudgetReached
    /\ wpc' = [wpc EXCEPT ![w] = "exited"]
    /\ UNCHANGED <<config, shared, run_pc, wtask, wperm, whttp, wrender, whtml, wlocation, history>>

\* The task is dropped: _handle_task returns, queue.task_done(), loop head.
Discard(w) ==
    /\ unfinished_tasks' = unfinished_tasks - 1
    /\ wpc' = [wpc EXCEPT ![w] = LoopHead(pages_processed)]
    /\ wtask' = [wtask EXCEPT ![w] = NoTask]

\* self.client.get(url) in _fetch_http, called as soon as both permits are
\* held.
ClientGet(gets, pc, url) == IF pc = "fetch" THEN gets \cup {url} ELSE gets

\* visited.add(task.url), then the permits up to the first suspension.
Admit(w) ==
    LET url == wtask[w].url
        a == AcquirePermits(url)
    IN  /\ visited' = visited \cup {url}
        /\ visit_count' = [visit_count EXCEPT ![url] = @ + 1]
        /\ client_gets' = ClientGet(client_gets, a.pc, url)
        /\ global_semaphore' = a.g
        /\ per_host_semaphores' = a.hs
        /\ wperm' = [wperm EXCEPT ![w] = a.perm]
        /\ wpc' = [wpc EXCEPT ![w] = a.pc]

\* _handle_task from its start to its first suspension.
HandleTask(w) ==
    /\ wpc[w] = "handle"
    /\ LET task == wtask[w]
           base == RobotsBase(task.url)
           rp == DictGet(robots_parsers, base)
       IN  IF PreCheck(task) # "pass"
           THEN /\ Discard(w)
                /\ UNCHANGED <<visited, global_semaphore, per_host_semaphores,
                               wperm, history>>
           ELSE IF robots_enabled /\ rp = None
           THEN \* the robots document is retrieved: _robots_allows suspends
                /\ wpc' = [wpc EXCEPT ![w] = "robots"]
                /\ robots_gets' = [robots_gets EXCEPT ![base] = @ + 1]
                /\ UNCHANGED <<visited, unfinished_tasks, global_semaphore,
                               per_host_semaphores, wtask, wperm, put_count,
                               visit_count, robots_writes, client_gets>>
           ELSE IF robots_enabled /\ ~can_fetch(rp, task.url)
           THEN /\ Discard(w)
                /\ UNCHANGED <<visited, global_semaphore, per_host_semaphores,
                               wperm, history>>
           ELSE /\ Admit(w)
                /\ UNCHANGED <<unfinished_tasks, wtask, put_count, robots_gets,
                               robots_writes>>
    /\ UNCHANGED <<config, enqueued, queue, pages_processed, robots_parsers,
                   client_closed, playwright_closed, playwright_started,
                   records, run_pc, whttp, wrender, whtml, wlocation>>

\* The robots retrieval returns: the parser is stored under the origin and
\* asked about the address.
RobotsReturn(w) ==
    /\ wpc[w] = "robots"
    /\ \E outcome \in RobotsOutcomes :
         LET task == wtask[w]
             base == RobotsBase(task.url)
             rp == RobotsParserFor(outcome)
         IN  /\ robots_parsers' = DictSet(robots_parsers, base, rp)
             /\ robots_writes' = [robots_writes EXCEPT ![base] = @ + 1]
             /\ IF can_fetch(rp, task.url)
                THEN /\ Admit(w)
                     /\ UNCHANGED <<unfinished_tasks, wtask>>
                ELSE /\ Discard(w)
                     /\ UNCHANGED <<visited, global_semaphore,
                                    per_host_semaphores, wperm, visit_count,
                                    client_gets>>
    /\ UNCHANGED <<config, enqueued, queue, pages_processed, client_closed,
                   playwright_closed, playwright_started, records, run_pc,
                   whttp, wrender, whtml, wlocation, put_count, robots_gets>>

\* A worker waiting for a global permit gets one, and goes on to the origin's.
AcquireGlobal(w) ==
    /\ wpc[w] = "gsem"
    /\ GlobalFree
    /\ LET a == AcquirePermits(wtask[w].url)
       IN  /\ global_semaphore' = a.g
           /\ per_host_semaphores' = a.hs
           /\ wperm' = [wperm EXCEPT ![w] = a.perm]
           /\ wpc' = [wpc EXCEPT ![w] = a.pc]
           /\ client_gets' = ClientGet(client_gets, a.pc, wtask[w].url)
    /\ UNCHANGED <<config, visited, enqueued, queue, unfinished_tasks,
                   pages_processed, robots_parsers, client_closed,
                   playwright_closed, playwright_started, records, run_pc,
                   wtask, whttp, wrender, whtml, wlocation, put_count,
                   visit_count, robots_gets, robots_writes>>

\* A worker waiting for its origin's permit gets it.
AcquireHost(w) ==
    /\ wpc[w] = "hsem"
    /\ HostFree(wtask[w].url.host)
    /\ per_host_semaphores' =
         DictSet(per_host_semaphores, wtask[w].url.host,
                 HostSemValue(wtask[w].url.host) - 1)
    /\ wperm' = [wperm EXCEPT ![w] = @ \cup {"host"}]
    /\ wpc' = [wpc EXCEPT ![w] = AfterPermits]
    /\ client_gets' = ClientGet(client_gets, AfterPermits, wtask[w].url)
    /\ UNCHANGED <<config, visited, enqueued, queue, unfinished_tasks,
                   pages_processed, global_semaphore, robots_parsers,
                   client_closed, playwright_closed, playwright_started,
                   records, run_pc, wtask, whttp, wrender, whtml, wlocation,
                   put_count, visit_count, robots_gets, robots_writes>>

\* asyncio.sleep(delay_ms / 1000.0) returns: _fetch_http calls
\* self.client.get(url).
DelayReturn(w) ==
    /\ wpc[w] = "delay"
    /\ wpc' = [wpc EXCEPT ![w] = "fetch"]
    /\ client_gets' = ClientGet(client_gets, "fetch", wtask[w].url)
    /\ UNCHANGED <<config, shared, run_pc, wtask, wperm, whttp, wrender, whtml,
                   wlocation, put_count, visit_count, robots_gets,
                   robots_writes>>

\* The finally clause of _handle_task, then task_done() and the loop head;
\* _handle_task's locals go with its frame.
ReleaseAndFinish(w, processed, put, pc) ==
    /\ per_host_semaphores' =
         DictSet(per_host_semaphores, wtask[w].url.host,
                 HostSemValue(wtask[w].url.host) + 1)
    /\ global_semaphore' = global_semaphore + 1
    /\ wperm' = [wperm EXCEPT ![w] = {}]
    /\ unfinished_tasks' = unfinished_tasks + put - 1
    /\ pages_processed' = processed
    /\ wpc' = [wpc EXCEPT ![w] = pc]
    /\ wtask' = [wtask EXCEPT ![w] = NoTask]
    /\ whttp' = [whttp EXCEPT ![w] = "None"]
    /\ wrender' = [wrender EXCEPT ![w] = "pending"]
    /\ whtml' = [whtml EXCEPT ![w] = "None"]
    /\ wlocation' = [wlocation EXCEPT ![w] = None]

\* self.client.get(url) is answered with a redirect: the client, built with
\* follow_redirects=True, sends a GET to the Location, whatever its host.
FollowRedirect(w) ==
    /\ wpc[w] = "fetch"
    /\ wlocation[w] = None
    /\ Location(wtask[w].url) # None
    /\ wlocation' = [wlocation EXCEPT ![w] = Location(wtask[w].url)]
    /\ client_gets' = client_gets \cup {Location(wtask[w].url)}
    /\ UNCHANGED <<config, shared, run_pc, wpc, wtask, wperm, whttp, wrender,
                   whtml, put_count, visit_count, robots_gets, robots_writes>>

\* The address whose response _fetch_http reads.
ResponseUrl(w) == IF wlocation[w] = None THEN wtask[w].url ELSE wlocation[w]

\* _fetch_http returns; the render decision.  A render is awaited when the
\* engine can be imported.  When it cannot, render_content raises out of
\* ensure_browser before any suspension and the exception is swallowed in the
\* same stretch.  Without an awaited render the page goes to _process_page
\* or, with no content, is abandoned.
FetchReturn(w) ==
    /\ wpc[w] = "fetch"
    /\ \E html \in FetchOutcomes(ResponseUrl(w)) :
         IF needs_render(html) /\ playwright # "None" /\ playwright_installed
         THEN /\ whttp' = [whttp EXCEPT ![w] = html]
              /\ wrender' = [wrender EXCEPT ![w] = "invoked"]
              /\ wpc' = [wpc EXCEPT ![w] = "render"]
              /\ wlocation' = [wlocation EXCEPT ![w] = None]
              /\ UNCHANGED <<whtml, per_host_semaphores, global_semaphore,
                             wperm, unfinished_tasks, pages_processed, wtask>>
         ELSE IF Truthy(html)
         THEN /\ whttp' = [whttp EXCEPT ![w] = html]
              /\ wrender' = [wrender EXCEPT ![w] =
                    IF needs_render(html) /\ playwright # "None"
                    THEN "raised" ELSE "skipped"]
              /\ whtml' = [whtml EXCEPT ![w] = html]
              /\ wpc' = [wpc EXCEPT ![w] = "process"]
              /\ wlocation' = [wlocation EXCEPT ![w] = None]
              /\ UNCHANGED <<per_host_semaphores, global_semaphore, wperm,
                             unfinished_tasks, pages_processed, wtask>>
         ELSE ReleaseAndFinish(w, pages_processed, 0, LoopHead(pages_processed))
    /\ UNCHANGED <<config, visited, enqueued, queue, robots_parsers,
                   client_closed, playwright_closed, playwright_started,
                   records, run_pc, history>>

\* ensure_browser, called by a render_content that is still awaited:
\* async_playwright().start() returns and self._playwright is set; the worker
\* goes on waiting for the launch, the page and its content.
EnsureBrowser(w) ==
    /\ wpc[w] = "render"
    /\ playwright_installed
    /\ ~playwright_started
    /\ playwright_started' = TRUE
    /\ UNCHANGED <<config, visited, enqueued, queue, unfinished_tasks,
                   pages_processed, global_semaphore, per_host_semaphores,
                   robots_parsers, client_closed, playwright_closed, records,
                   locals, history>>

\* render_content returns or raises: a non-empty document replaces the raw
\* one; the page goes to _process_page or, with no content, is abandoned.
\* It returns only from a started engine; it raises before the start (the
\* start fails) or after it.
RenderReturn(w) ==
    /\ wpc[w] = "render"
    /\ \E rendered \in RenderOutcomes(wtask[w].url) :
         LET html == IF rendered # "raise" /\ Truthy(rendered) THEN rendered
                     ELSE whttp[w]
         IN  /\ rendered # "raise" => playwright_started
             /\ IF Truthy(html)
                THEN /\ wrender' = [wrender EXCEPT ![w] =
                           IF rendered = "raise" THEN "raised"
                           ELSE IF Truthy(rendered) THEN "rendered" ELSE "empty"]
                     /\ whtml' = [whtml EXCEPT ![w] = html]
                     /\ wpc' = [wpc EXCEPT ![w] = "process"]
                     /\ UNCHANGED <<whttp, per_host_semaphores, global_semaphore,
                                    wperm, unfinished_tasks, pages_processed, wtask,
                                    wlocation>>
                ELSE ReleaseAndFinish(w, pages_processed, 0, LoopHead(pages_processed))
    /\ UNCHANGED <<config, visited, enqueued, queue, robots_parsers,
                   client_closed, playwright_closed, playwright_started,
                   records, run_pc, history>>

\* The image addresses _process_page downloads for worker w's document.
PageImages(w) ==
    IF download_images THEN extract_image_sources(whtml[w]) ELSE <<>>

\* _process_page from its start to the image downloads: the extractors have
\* run, save_html has returned, and _download_image sends a GET for every
\* image address of the document, with no check of its host.
ProcessImages(w) ==
    /\ wpc[w] = "process"
    /\ PageImages(w) # <<>>
    /\ client_gets' = client_gets \cup Range(PageImages(w))
    /\ wpc' = [wpc EXCEPT ![w] = "images"]
    /\ UNCHANGED <<config, shared, run_pc, wtask, wperm, whttp, wrender, whtml,
                   wlocation, put_count, visit_count, robots_gets,
                   robots_writes>>

\* append_jsonl up to its write: save_html and the image downloads, if any,
\* have returned, no other writer holds StorageManager._jsonl_lock, and the
\* record reaches data.jsonl while append_jsonl, holding the lock, is still
\* awaited.
ProcessRecord(w) ==
    /\ \/ wpc[w] = "images"
       \/ wpc[w] = "process" /\ PageImages(w) = <<>>
    /\ \A v \in Workers : wpc[v] # "recorded"
    /\ records' = Append(records, wtask[w].url)
    /\ wpc' = [wpc EXCEPT ![w] = "recorded"]
    /\ UNCHANGED <<config, visited, enqueued, queue, unfinished_tasks,
                   pages_processed, global_semaphore, per_host_semaphores,
                   robots_parsers, client_closed, playwright_closed,
                   playwright_started, run_pc, wtask, wperm, whttp, wrender,
                   whtml, wlocation, history>>

\* append_jsonl releases the lock and returns: the links are put on the
\* frontier, the counter is incremented, the permits are released and the
\* task is marked done.
ProcessReturn(w) ==
    /\ wpc[w] = "recorded"
    /\ LET task == wtask[w]
           hrefs == extract_links(whtml[w]) \o extract_pagination_next_links(whtml[w])
           new == EnqueueLinks(task.url, hrefs, enqueued)
       IN  /\ queue' = queue \o [i \in 1..Len(new) |-> CrawlTask(new[i], next_depth(task))]
           /\ enqueued' = EnqueuedAdd(enqueued, new)
           /\ put_count' = [u \in AllUrls |-> put_count[u] + CountIn(new, u)]
           /\ ReleaseAndFinish(w, pages_processed + 1, Len(new),
                               LoopHead(pages_processed + 1))
    /\ UNCHANGED <<config, visited, robots_parsers, client_closed,
                   playwright_closed, playwright_started, records, run_pc,
                   visit_count, robots_gets, robots_writes, client_gets>>

\* Mutant of ProcessRaise: no finally clause releases the permits.
ProcessRaise_NoFinally(w) ==
    /\ wpc[w] \in {"process", "images", "recorded"}
    /\ unfinished_tasks' = unfinished_tasks - 1
    /\ wpc' = [wpc EXCEPT ![w] = "crashed"]
    /\ wtask' = [wtask EXCEPT ![w] = NoTask]
    /\ whttp' = [whttp EXCEPT ![w] = "None"]
    /\ wrender' = [wrender EXCEPT ![w] = "pending"]
    /\ whtml' = [whtml EXCEPT ![w] = "None"]
    /\ UNCHANGED <<config, visited, enqueued, queue, pages_processed,
                   global_semaphore, per_host_semaphores, robots_parsers,
                   client_closed, playwright_closed, playwright_started,
                   records, run_pc, wperm, wlocation, history>>

\* An extraction or storage call of _process_page raises, before the record
\* is written or in append_jsonl after its write (the lock is released on the
\* way out): no link is enqueued; the permits are released, the task is
\* marked done, and the exception ends the worker.
ProcessRaise(w) ==
    /\ wpc[w] \in {"process", "images", "recorded"}
    /\ ReleaseAndFinish(w, pages_processed, 0, "crashed")
    /\ UNCHANGED <<config, visited, enqueued, queue, robots_parsers,
                   client_closed, playwright_closed, playwright_started, records, run_pc, history>>

\* The steps a worker takes when every collaborator returns.
WorkerStep(w) ==
    \/ WorkerStart(w)
    \/ WorkerGet(w)
    \/ WorkerTimeout(w)
    \/ HandleTask(w)
    \/ RobotsReturn(w)
    \/ AcquireGlobal(w)
    \/ AcquireHost(w)
    \/ DelayReturn(w)
    \/ FollowRedirect(w)
    \/ FetchReturn(w)
    \/ EnsureBrowser(w)
    \/ RenderReturn(w)
    \/ ProcessImages(w)
    \/ ProcessRecord(w)
    \/ ProcessReturn(w)

RunStep == RunStart \/ RunJoin \/ RunFinish \/ RunCloseClient \/ RunCloseEngine

Next ==
    \/ RunStart
    \/ RunJoin
    \/ RunFinish
    \/ RunCloseClient
    \/ RunCloseEngine
    \/ \E w \in Workers : WorkerStart(w)
    \/ \E w \in Workers : WorkerGet(w)
    \/ \E w \in Workers : WorkerTimeout(w)
    \/ \E w \in Workers : HandleTask(w)
    \/ \E w \in Workers : RobotsReturn(w)
    \/ \E w \in Workers : AcquireGlobal(w)
    \/ \E w \in Workers : AcquireHost(w)
    \/ \E w \in Workers : DelayReturn(w)
    \/ \E w \in Workers : FollowRedirect(w)
    \/ \E w \in Workers : FetchReturn(w)
    \/ \E w \in Workers : EnsureBrowser(w)
    \/ \E w \in Workers : RenderReturn(w)
    \/ \E w \in Workers : ProcessImages(w)
    \/ \E w \in Workers : ProcessRecord(w)
    \/ \E w \in Workers : ProcessReturn(w)
    \/ \E w \in Workers : ProcessRaise(w)

Spec == Init /\ [][Next]_vars

\* The event loop runs every coroutine that is ready, and every retrieval,
\* render and storage call that was started comes back: run() and each worker
\* take their next step when one stays possible.
WorkerIds == 1..WorkerFloor

Fairness ==
    /\ WF_vars(RunStep)
    /\ \A w \in WorkerIds : WF_vars(w \in Workers /\ WorkerStep(w))

FairSpec == Init /\ [][Next]_vars /\ Fairness

(***************************************************************************)
(* Properties.                                                             *)
(***************************************************************************)
InFlight == {"delay", "fetch", "render", "process", "images", "recorded"}

Admitted ==
    {"gsem", "hsem", "delay", "fetch", "render", "process", "images", "recorded"}

\* C1: in every reachable state pages_processed <= max_pages, whatever the
\* number of workers in flight when the budget is reached.
C1_BudgetNeverExceeded == pages_processed <= max_pages

\* C2: under fair scheduling, with every network, render and storage call
\* returning (no worker is ended by an exception), run() eventually ends,
\* for every configuration and seed list.
C2_RunEventuallyReturns ==
    <>(run_pc \in {"returned", "raised"} \/ \E w \in Workers : wpc[w] = "crashed")

\* C3: for every address, at most one CrawlTask is ever put on the frontier,
\* counting the seeds and the discovered links.
C3_EnqueuedAtMostOnce == \A u \in AllUrls : put_count[u] <= 1

\* C4: for every address, the step that marks it visited and goes on to fetch
\* it is taken at most once in a run.
C4_VisitedAtMostOnce == \A u \in AllUrls : visit_count[u] <= 1

\* C5: at most max_concurrency workers hold a global permit, at most
\* per_host_limit workers hold the permit of any one network location, and a
\* worker that is fetching, rendering or processing holds both.
C5_PermitBounds ==
    /\ Cardinality({w \in Workers : "global" \in wperm[w]}) <= max_concurrency
    /\ \A u \in AllUrls :
         Cardinality({w \in Workers : "host" \in wperm[w] /\ wtask[w].url.host = u.host})
            <= per_host_limit
    /\ \A w \in Workers : wpc[w] \in InFlight => wperm[w] = {"global", "host"}

\* C5 witness: one worker is in flight on an origin and another, holding a
\* global permit, waits for that origin's permit.
C5_Witness ==
    \E w1, w2 \in Workers :
        /\ wpc[w1] \in InFlight
        /\ wpc[w2] = "hsem"
        /\ wtask[w1].url.host = wtask[w2].url.host
        /\ per_host_limit = 1

\* C6: with robots enforcement on, a parser cached after a retrieval that
\* raised or returned a non-200 status allows every address of its origin, and
\* a parser cached from the 200 document that disallows /private/ refuses
\* exactly the addresses under /private/.
C6_RobotsFailOpen ==
    \A o \in DOMAIN robots_parsers : \A u \in AllUrls :
        RobotsBase(u) = o =>
            /\ robots_parsers[o] \in {RobotsParserFor("non200"), RobotsParserFor("raise")}
                  => can_fetch(robots_parsers[o], u)
            /\ robots_parsers[o] = RobotsParserFor("200")
                  => (can_fetch(robots_parsers[o], u) <=> u # U_priv)

\* C7: for every origin at most one robots retrieval is issued in a run and
\* the cache entry of the origin is written once.
C7_OneRobotsRetrievalPerOrigin ==
    \A o \in Origins : robots_gets[o] <= 1 /\ robots_writes[o] <= 1

\* C8: no task whose depth exceeds max_depth is marked visited, waits for a
\* permit, is fetched, rendered or processed.
C8_DepthLimit ==
    \A w \in Workers : wpc[w] \in Admitted => wtask[w].depth <= max_depth

\* C8 witness: with max_depth = 0 the task of depth 1 that the seed page's
\* processing put on the frontier has been taken and dropped: the budget is not
\* reached, robots are off, the address is allowed and not visited.
C8_Witness ==
    /\ max_depth = 0
    /\ max_pages = 2
    /\ ~robots_enabled
    /\ start_urls = <<U_home>>
    /\ records = <<U_home>>
    /\ put_count[U_p] = 1
    /\ unfinished_tasks = 0
    /\ U_p \notin visited


\* The step in which worker w's _process_page completes.
ProcessedBy(w) ==
    /\ wpc[w] = "recorded"
    /\ wpc'[w] # "recorded"
    /\ pages_processed' = pages_processed + 1

\* What C9 says the step puts on the frontier: the normal forms of the page's
\* links, in order, each once, of those that have a normal form, are neither
\* enqueued nor visited, and pass the allowlist.
C9_Links(w) == extract_links(whtml[w]) \o extract_pagination_next_links(whtml[w])

C9_Norm(w, i) == normalize_url(wtask[w].url, C9_Links(w)[i])

C9_Kept(w) ==
    {i \in 1..Len(C9_Links(w)) :
        /\ C9_Norm(w, i) # None
        /\ C9_Norm(w, i) \notin enqueued
        /\ C9_Norm(w, i) \notin visited
        /\ is_allowed_domain(C9_Norm(w, i), allowed_domains)
        /\ \A j \in 1..(i - 1) : C9_Norm(w, j) # C9_Norm(w, i)}

\* C9: when a page has been processed, every link with a normal form that is
\* neither visited nor enqueued and passes the allowlist is added to enqueued
\* and pushed exactly once, in order, as a CrawlTask of depth 1 whatever the
\* parent's depth, and nothing else is pushed; the seed page with two distinct
\* allowed links and one disallowed link adds exactly two tasks.
C9_LinkDiscovery ==
    [][\A w \in Workers : ProcessedBy(w) =>
          LET kept == C9_Kept(w)
              n == Len(queue)
          IN  /\ enqueued' = enqueued \cup {C9_Norm(w, i) : i \in kept}
              /\ Len(queue') = n + Cardinality(kept)
              /\ \A k \in 1..n : queue'[k] = queue[k]
              /\ \A i \in kept :
                    queue'[n + Cardinality({j \in kept : j <= i})]
                        = [url |-> C9_Norm(w, i), depth |-> 1]
              /\ (wtask[w].url = U_home /\ allowed_domains # <<>> /\ enqueued = {U_home})
                    => Len(queue') = n + 2
      ]_vars

\* C9 witness: the seed page has been processed under the allowlist and its
\* two allowed links are the frontier, each at depth 1.
C9_Witness ==
    /\ start_urls = <<U_home>>
    /\ allowed_domains # <<>>
    /\ records = <<U_home>>
    /\ queue = <<CrawlTask(U_p, 1), CrawlTask(U_q, 1)>>
    /\ enqueued = {U_home, U_p, U_q}

\* What the configured policy asks for a raw fetch result.
C10_PolicyRenders(raw) ==
    \/ render_mode = "always"
    \/ render_mode = "auto" /\ (~Truthy(raw) \/ should_render_heuristic(raw))

Ended == {"exited", "crashed", "cancelled"}

\* run() from its cancel of the workers on.
RunShutdown == {"gather", "aclose", "close", "returned", "raised"}

\* C11: workers are cancelled only once queue.join() has returned with every
\* task accounted for; the client and the rendering engine are closed only
\* after every worker has ended; and once run() has gone through its shutdown
\* the client is closed and so is the rendering engine when there is one,
\* also when workers were cancelled while waiting on the frontier.
C11_OrderedCompleteShutdown ==
    /\ (\E w \in Workers : wpc[w] = "cancelled")
          => (run_pc \in RunShutdown /\ unfinished_tasks = 0)
    /\ (client_closed \/ playwright_closed)
          => /\ \A w \in Workers : wpc[w] \in Ended
             /\ run_pc \in {"close", "returned"}
    /\ playwright_closed => client_closed
    /\ run_pc \in {"returned", "raised"}
          => (client_closed /\ (playwright # "None" => playwright_closed))

\* C12: no failure while an address is handled ends the worker that handled
\* it: no worker is ever ended by an exception.
C12_NoFailureStopsWorker == \A w \in Workers : wpc[w] # "crashed"

\* C13: when rendering is requested and the engine cannot be imported, the
\* crawl fails at startup: no address is ever marked visited or fetched and
\* no record is appended.
C13_MissingEngineFatalAtStartup ==
    (render_mode # "never" /\ ~playwright_installed)
        => /\ visited = {}
           /\ records = <<>>
           /\ \A w \in Workers : wpc[w] \notin Admitted

(***************************************************************************)
(* scraper.utils called on its own: normalize_url applied to a base and a  *)
(* reference and then to its own result, and is_allowed_domain applied to  *)
(* an address and an allowlist.                                            *)
(***************************************************************************)
HostUpper == <<"X", ".", "C">>

HostEvil == <<"e", ".", "c">>

\* References: relative, query-only, fragment-only, network-path, and a
\* script reference written with a leading blank.
H_rel == Url("", <<>>, <<"p">>, <<"a", "gclid">>, "f")

H_query == Url("", <<>>, <<>>, <<"a">>, "")

H_frag == Url("", <<>>, <<>>, <<>>, "top")

H_netpath == Url("", HostSub, <<"q">>, <<"fbclid">>, "")

H_mailto == Url("mailto", <<>>, <<"a@x.c">>, <<>>, "")

H_script_blank == Url(" javascript", <<>>, <<"void(0)">>, <<>>, "")

NormBases == AllUrls \cup {Url("http", HostX, <<"p">>, <<"b">>, "")}

NormHrefs ==
    AllUrls \cup {EmptyHref, H_p_tracked, H_p_upper, H_script, H_rel, H_query,
                  H_frag, H_netpath, H_mailto, H_script_blank}

AllowUrls ==
    AllUrls \cup {Url("http", HostUpper, <<"p">>, <<>>, ""),
                  Url("http", HostEvil, <<"p">>, <<>>, ""),
                  Url("", <<>>, <<"p">>, <<>>, "")}

AllowDomainLists ==
    DomainLists \cup {<<HostX>>, <<HostEvil, HostX>>, <<HostUpper>>,
                      <<<<".", ".", "x", ".", "c">>>>, <<<<"c">>>>, <<<<>>>>,
                      <<HostSub>>, <<HostEvil>>}

CallNormalize ==
    /\ call = NoCall
    /\ \E b \in NormBases, h \in NormHrefs :
         call' = [fn |-> "normalize_url", stage |-> "applied", base |-> b,
                  href |-> h, out |-> normalize_url(b, h)]
    /\ UNCHANGED <<start_urls, allowed_domains, max_pages, max_depth,
                   max_concurrency, per_host_limit, robots_enabled, render_mode,
                   download_images, delay_ms, playwright_installed, shared,
                   locals, history>>

\* The result, when there is one, is normalized again and stripped again.
NormalizeAgain ==
    /\ call.fn = "normalize_url"
    /\ call.stage = "applied"
    /\ call.out # None
    /\ call' = [fn |-> "normalize_url", stage |-> "reapplied", base |-> call.base,
                href |-> call.href, out |-> call.out,
                again |-> normalize_url(call.base, call.out),
                restrip |-> strip_fragment_and_tracking(call.out)]
    /\ UNCHANGED <<start_urls, allowed_domains, max_pages, max_depth,
                   max_concurrency, per_host_limit, robots_enabled, render_mode,
                   download_images, delay_ms, playwright_installed, shared,
                   locals, history>>

CallIsAllowed ==
    /\ call = NoCall
    /\ \E u \in AllowUrls, ds \in AllowDomainLists :
         call' = [fn |-> "is_allowed_domain", url |-> u, domains |-> ds,
                  out |-> is_allowed_domain(u, ds)]
    /\ UNCHANGED <<start_urls, allowed_domains, max_pages, max_depth,
                   max_concurrency, per_host_limit, robots_enabled, render_mode,
                   download_images, delay_ms, playwright_installed, shared,
                   locals, history>>

CallReturn ==
    /\ call # NoCall
    /\ call' = NoCall
    /\ UNCHANGED <<start_urls, allowed_domains, max_pages, max_depth,
                   max_concurrency, per_host_limit, robots_enabled, render_mode,
                   download_images, delay_ms, playwright_installed, shared,
                   locals, history>>

\* No crawl runs: the crawler is the one AsyncCrawler([], ...) constructs.
UtilInit ==
    /\ Init
    /\ start_urls = <<>>
    /\ allowed_domains = <<>>
    /\ max_pages = 0
    /\ max_depth = 0
    /\ max_concurrency = 1
    /\ robots_enabled = FALSE
    /\ render_mode = "never"
    /\ download_images
    /\ delay_ms = 0

UtilNext == CallNormalize \/ NormalizeAgain \/ CallIsAllowed \/ CallReturn

UtilSpec == UtilInit /\ [][UtilNext]_vars

\* C14: whenever normalize_url(B, H) gives an address U, normalize_url(B, U)
\* gives U again and strip_fragment_and_tracking(U) is U.
C14_NormalizeIdempotent ==
    (call.fn = "normalize_url" /\ call.stage = "reapplied")
        => (call.again = call.out /\ call.restrip = call.out)

\* What C15 says of a domain entry: lower-cased, without its leading dots.
C15_Entry(d) ==
    LET first == {k \in 1..Len(d) : d[k] # "."}
    IN  IF first = {} THEN <<>>
        ELSE LET k0 == CHOOSE k \in first : \A j \in first : k <= j
             IN  [i \in 1..(Len(d) - k0 + 1) |-> LowerChar(d[k0 + i - 1])]

\* The network location is the entry, or the text after one of its dots is.
C15_Matches(host, d) ==
    LET n == [i \in 1..Len(host) |-> LowerChar(host[i])]
        e == C15_Entry(d)
    IN  \/ n = e
        \/ \E k \in 1..Len(n) : n[k] = "." /\ SubSeq(n, k + 1, Len(n)) = e

\* C15: is_allowed_domain(url, domains) is true exactly when domains is empty
\* or the lower-cased network location equals a listed domain (lower-cased,
\* leading dots stripped) or ends with "." and that domain; s.x.c is allowed
\* by [x.c], while e.c and yx.c, which has no dot before x.c, are not.
C15_AllowedDomain ==
    call.fn = "is_allowed_domain" =>
        /\ call.out <=> (\/ call.domains = <<>>
                         \/ \E i \in 1..Len(call.domains) :
                               C15_Matches(call.url.host, call.domains[i]))
        /\ (call.url.host = HostSub /\ call.domains = <<HostX>>) => call.out
        /\ (call.url.host \in {HostEvil, HostYx} /\ call.domains = <<HostX>>)
              => ~call.out

\* C15 witness: the three cases of the claim have been computed.
C15_Witness ==
    /\ call.fn = "is_allowed_domain"
    /\ call.domains = <<HostX>>
    /\ call.url.host = HostYx
    /\ ~call.out
    /\ is_allowed_domain(U_q, <<HostX>>)
    /\ ~is_allowed_domain(Url("http", HostEvil, <<"p">>, <<>>, ""), <<HostX>>)

(***************************************************************************)
(* Depth, permits, discards.                                               *)
(***************************************************************************)
\* C16: every task that the processing of a page puts on the frontier has
\* the depth of that page's task plus one, so that a task's depth is the
\* number of link hops that led to it and max_depth bounds those hops.
C16_IncrementedDepth ==
    [][\A w \in Workers : ProcessedBy(w) =>
          \A k \in (Len(queue) + 1)..Len(queue') :
              queue'[k].depth = wtask[w].depth + 1
      ]_vars

\* A worker that waits for a permit none of which is free.
Blocked(w) ==
    \/ wpc[w] = "gsem" /\ global_semaphore <= 0
    \/ wpc[w] = "hsem" /\ HostSemValue(wtask[w].url.host) <= 0

\* C17: the global permit is taken first and the origin's second, and both
\* are given back when the task ends: a worker waiting for the global permit
\* holds nothing, one waiting for the origin's permit holds the global one,
\* no worker holds an origin permit without a global one, a worker past its
\* task holds nothing; and whenever a worker is blocked on a permit, some
\* worker holding both permits is in flight and will release them, so the
\* workers are never all blocked on permits.
C17_PermitProtocol ==
    /\ \A w \in Workers :
          /\ "host" \in wperm[w] => "global" \in wperm[w]
          /\ wpc[w] = "gsem" => wperm[w] = {}
          /\ wpc[w] = "hsem" => wperm[w] = {"global"}
          /\ wpc[w] \notin Admitted => wperm[w] = {}
    /\ (\E w \in Workers : Blocked(w))
          => \E v \in Workers : wpc[v] \in InFlight /\ wperm[v] = {"global", "host"}
    /\ ~ \A w \in Workers : Blocked(w)

\* C17 witness: a worker holding the global permit waits for the permit of an
\* origin whose one permit is held by a worker that is rendering.
C17_Witness ==
    \E w, v \in Workers :
        /\ wpc[w] = "hsem"
        /\ Blocked(w)
        /\ wperm[w] = {"global"}
        /\ wpc[v] = "render"
        /\ wperm[v] = {"global", "host"}

\* The step in which worker w's task fails a pre-fetch check and is dropped.
DiscardedBy(w) ==
    /\ wpc[w] \in {"handle", "robots"}
    /\ wpc'[w] \in {"waiting", "exited"}

\* The step in which worker w issues the retrieval of a robots document.
RobotsRetrievedBy(w) == wpc[w] = "handle" /\ wpc'[w] = "robots"

\* What a discard leaves alone, whatever the check that failed.
C18_Frame ==
    /\ visited' = visited
    /\ enqueued' = enqueued
    /\ queue' = queue
    /\ pages_processed' = pages_processed
    /\ global_semaphore' = global_semaphore
    /\ per_host_semaphores' = per_host_semaphores
    /\ records' = records

\* A robots retrieval is issued only for a task that passes the budget, the
\* visited, the depth and the allowlist checks.
C18_Order(w) ==
    /\ pages_processed < max_pages
    /\ wtask[w].url \notin visited
    /\ wtask[w].depth <= max_depth
    /\ (allowed_domains = <<>>
          \/ \E i \in 1..Len(allowed_domains) :
                C15_Matches(wtask[w].url.host, allowed_domains[i]))

\* C18 as stated: a discard changes none of visited, enqueued, the frontier,
\* pages_processed, the permit pools, the robots cache and the records, and
\* no robots retrieval is issued for a task that fails an earlier check.
C18_DiscardNoSideEffects ==
    [][\A w \in Workers :
          /\ DiscardedBy(w) => (C18_Frame /\ robots_parsers' = robots_parsers)
          /\ RobotsRetrievedBy(w) => C18_Order(w)
      ]_vars

\* C18 amended: as stated, except that the robots check of a task whose
\* origin has no cache entry yet stores the origin's parser in the cache
\* before the task is dropped; no other entry of the cache changes.
C18_DiscardEffects ==
    [][\A w \in Workers :
          /\ DiscardedBy(w) =>
                /\ C18_Frame
                /\ wpc[w] = "handle" => robots_parsers' = robots_parsers
                /\ wpc[w] = "robots" =>
                      /\ DOMAIN robots_parsers' =
                            DOMAIN robots_parsers \cup {RobotsBase(wtask[w].url)}
                      /\ \A o \in DOMAIN robots_parsers :
                            o # RobotsBase(wtask[w].url)
                               => robots_parsers'[o] = robots_parsers[o]
          /\ RobotsRetrievedBy(w) => C18_Order(w)
      ]_vars

\* C18 witness: the only task, a seed under /private/, was dropped by the
\* robots check, which had retrieved the origin's robots document, read its
\* Disallow rule and filled the cache; nothing was marked visited, requested,
\* recorded or left on the frontier, and the permit pools are full.
C18_Witness ==
    /\ start_urls = <<U_priv>>
    /\ robots_enabled
    /\ DOMAIN robots_parsers = {RobotsBase(U_priv)}
    /\ robots_parsers[RobotsBase(U_priv)] = ParsedRobots
    /\ unfinished_tasks = 0
    /\ visited = {}
    /\ client_gets = {}
    /\ records = <<>>
    /\ queue = <<>>
    /\ global_semaphore = max_concurrency

\* The step in which worker w's fetch pipeline ends with no content.
AbandonedBy(w) ==
    /\ wpc[w] \in {"fetch", "render"}
    /\ wpc'[w] \in {"waiting", "exited"}

\* Addresses that were abandoned: marked visited, without a record, and in no
\* worker's hands, in a run where no worker was ended by an exception.
C19_Abandoned ==
    {u \in visited :
        /\ \A i \in 1..Len(records) : records[i] # u
        /\ \A w \in Workers : wpc[w] = "crashed" \/ wpc[w] \in Admitted => wtask[w].url # u
        /\ \A w \in Workers : wpc[w] # "crashed"}

\* C19: when the pipeline ends with no content the step appends no record,
\* enqueues nothing, leaves pages_processed alone, gives back both permits
\* and leaves the address in visited; and no address that was abandoned is
\* ever admitted to a fetch again.
C19_AbandonNoRetry ==
    [][\A w \in Workers :
          /\ AbandonedBy(w) =>
                /\ records' = records
                /\ enqueued' = enqueued
                /\ queue' = queue
                /\ pages_processed' = pages_processed
                /\ wperm[w] = {"global", "host"}
                /\ wperm'[w] = {}
                /\ global_semaphore' = global_semaphore + 1
                /\ per_host_semaphores'[wtask[w].url.host]
                      = per_host_semaphores[wtask[w].url.host] + 1
                /\ wtask[w].url \in visited'
          /\ (wpc[w] \in {"handle", "robots"} /\ wpc'[w] \in Admitted)
                => wtask[w].url \notin C19_Abandoned
      ]_vars

(***************************************************************************)
(* The enqueued set.                                                       *)
(***************************************************************************)
QueuedUrls == {queue[i].url : i \in 1..Len(queue)}

\* C20: in every reachable state enqueued contains visited and the address
\* of every task queued on the frontier, and no step removes an address from
\* visited or from enqueued.
C20_EnqueuedSuperset ==
    /\ [](visited \subseteq enqueued /\ QueuedUrls \subseteq enqueued)
    /\ [][visited \subseteq visited' /\ enqueued \subseteq enqueued']_vars

\* C20 witness: some addresses are visited, some are queued, and one that was
\* enqueued is neither: its task was taken and dropped.
C20_Witness ==
    /\ visited # {}
    /\ queue # <<>>
    /\ \E u \in enqueued :
          /\ u \notin visited
          /\ u \notin QueuedUrls
          /\ \A w \in Workers : wtask[w].url # u

(***************************************************************************)
(* The allowlist and the permit pools over a whole run.                    *)
(***************************************************************************)
\* The address's network location is a listed domain or a subdomain of one.
C21_Inside(u) ==
    \E i \in 1..Len(allowed_domains) : C15_Matches(u.host, allowed_domains[i])

\* What the allowlist guarantees of the addresses the crawler takes as tasks:
\* every address that is visited, in a worker's hands for a robots retrieval,
\* a permit, a fetch, a render or processing, or recorded, is inside the
\* allowlist; an address outside it is never marked visited, its origin's
\* robots document is never retrieved or cached, and it is put on the frontier
\* only as a seed, never by link discovery.
C21_Tasks ==
    /\ \A u \in visited : C21_Inside(u)
    /\ \A w \in Workers :
          wpc[w] \in Admitted \cup {"robots"} => C21_Inside(wtask[w].url)
    /\ \A i \in 1..Len(records) : C21_Inside(records[i])
    /\ \A u \in AllUrls : ~C21_Inside(u) =>
          /\ visit_count[u] = 0
          /\ robots_gets[RobotsBase(u)] = 0
          /\ RobotsBase(u) \notin DOMAIN robots_parsers
          /\ put_count[u] <= CountIn(start_urls, u)
    /\ \A u \in enqueued : ~C21_Inside(u) => \E i \in 1..Len(start_urls) : start_urls[i] = u
    /\ \A i \in 1..Len(queue) : queue[i].depth > 0 => C21_Inside(queue[i].url)

\* The address is an image source of a document of the page v.
C21_ImageOf(u, v) ==
    \E html \in {RawDoc(v), RenderedDoc(v)} :
        \E i \in 1..Len(extract_image_sources(html)) :
            extract_image_sources(html)[i] = u

C22_HostHolders(host) ==
    {w \in Workers :
        "host" \in wperm[w] /\ wtask[w] # NoTask /\ wtask[w].url.host = host}

\* C22: the permits a pool lacks are exactly those that workers hold; so
\* whenever no worker is between its acquire and its release, and from the
\* moment run() cancels the workers, the global pool holds max_concurrency
\* permits and every origin's pool per_host_limit, whether the tasks ended
\* with a page processed, with no content, or with an exception.
C22_PermitsNeverLeaked ==
    /\ global_semaphore + Cardinality({w \in Workers : "global" \in wperm[w]})
          = max_concurrency
    /\ \A host \in DOMAIN per_host_semaphores :
          per_host_semaphores[host] + Cardinality(C22_HostHolders(host))
             = per_host_limit
    /\ ((\A w \in Workers : wpc[w] \notin Admitted)
          \/ run_pc \in RunShutdown)
          => /\ global_semaphore = max_concurrency
             /\ \A host \in DOMAIN per_host_semaphores :
                   per_host_semaphores[host] = per_host_limit
             /\ \A w \in Workers : wperm[w] = {}

\* C22 witness: a task ended with an exception in page processing, another
\* with a page recorded, run() has cancelled the workers, and the pools of
\* two origins are full again.
C22_Witness ==
    /\ \E w \in Workers : wpc[w] = "crashed"
    /\ records # <<>>
    /\ run_pc = "gather"
    /\ Cardinality(DOMAIN per_host_semaphores) >= 2
    /\ global_semaphore = max_concurrency

====
